---- MODULE Spec2Model ----
(***************************************************************************)
(* Model of the forwardsec package (identity keys, session keys, signed    *)
(* DH exports, per-message ephemeral encryption).  The cryptographic       *)
(* collaborators (dhkam, pks, authsym, encoding/asn1, crypto/x509) are      *)
(* modelled symbolically: a DH private value is a number, the group        *)
(* element it exports is named by that number, and a shared secret is      *)
(* named by the unordered pair of the two private values involved.         *)
(* The module also holds the challenge/response helper of package hap      *)
(* (chapter5/hap/hap.go), which shares no state with forwardsec.           *)
(***************************************************************************)
EXTENDS Integers, Sequences, FiniteSets, TLC

\* ---------------------------------------------------------------- bounds
\* DH key pairs that dhkam.GenerateKey may hand out (session + ephemeral).
MaxKeys == 4
\* Bytes of a Keccak-512 digest kept in the model (the real digest has 64).
HashSize == 2

\* ------------------------------------------------------------- constants
sharedKeyLen == 48
SymKeyLen == 16
\* hap: size of the buffers Challenge and Authenticate read into, and of the
\* buffer Authenticate reads the final "ok" into.
ResponseLength == 128
OkLength == 2

\* Honest identities (NewIdentityKey has run for each) and the adversary's
\* own identity.  No call looks inside a message, so one plaintext stands
\* for all of them.
Honest == {"IA", "IB"}
Eve == "IE"
AllIds == Honest \cup {Eve}
Msgs == {"m1"}

\* The adversary's own DH private value (never handed out by GenerateKey).
AdvKey == MaxKeys + 1

\* A nil pointer / a pointer to a value.
Nil == <<>>
Ptr(v) == <<v>>
Deref(p) == p[1]

\* ------------------------------------------------------ byte strings
Junk == [k |-> "junk"]
NilBytes == [k |-> "nil"]

\* big.Int bytes of a group element; pad counts leading zero bytes.
DHBytes(v, pad) == [k |-> "dh", val |-> v, pad |-> pad]

\* ------------------------------------------------------------ dhkam
\* PrivateKey.Export: the public value of private value prv.
Export(prv) == DHBytes(prv, 0)

\* dhkam.ImportPublic: fails on bytes that are no valid group element;
\* leading zero bytes do not change the number that is read.
ImportPublic(in) ==
    IF in.k = "dh" /\ in.val # 0
    THEN [err |-> "nil", pub |-> Ptr(in.val)]
    ELSE [err |-> "KeyImportError", pub |-> Nil]

\* PrivateKey.SharedKey on a valid public value: size bytes derived from
\* g^(prv * pub), named by the unordered pair; the byte string is kept as
\* the range [from, to) of that derivation's output.
SharedKey(prv, pub, size) ==
    LET a == Deref(pub)
    IN  [lo |-> IF prv <= a THEN prv ELSE a, hi |-> IF prv <= a THEN a ELSE prv,
         from |-> 0, to |-> size]

\* Go slice expressions b[:n] and b[n:] on such a byte string.
SliceTo(b, n) == [b EXCEPT !.to = b.from + n]
SliceFrom(b, n) == [b EXCEPT !.from = b.from + n]

\* -------------------------------------------------------------- pks
RsaPub(id) == [alg |-> "rsa", id |-> id]
Sign(key, data) == [k |-> "sig", signer |-> key, over |-> data]
Verify(pub, data, sig) ==
    sig.k = "sig" /\ sig.signer = pub.id /\ sig.over = data

\* ------------------------------------------------------ encoding/asn1
\* Marshal of a struct of two []byte fields: a SEQUENCE of two OCTET
\* STRINGs.  signedDHKey and the ephemeral envelope have the same shape.
Marshal(a, b) == [k |-> "seq", a |-> a, b |-> b, rest |-> 0]
\* Unmarshal accepts a SEQUENCE of two OCTET STRINGs; trailing bytes are
\* returned as the rest, which every caller here drops.
Unmarshal(in) ==
    IF in.k = "seq"
    THEN [err |-> "nil", a |-> in.a, b |-> in.b]
    ELSE [err |-> "DecodeError", a |-> NilBytes, b |-> NilBytes]

\* ------------------------------------------------------------ authsym
Plain(m) == [k |-> "pt", m |-> m]
Garbled == [k |-> "garbled"]
\* authsym.Encrypt: AES-CTR under symkey, HMAC tag under mackey; flip counts
\* bits changed after the tag was computed.
AuthEncrypt(symkey, mackey, message) ==
    [k |-> "ct", sym |-> symkey, mac |-> mackey, pt |-> message, flip |-> 0]
\* authsym.Decrypt: the tag is checked under mackey, then the body is
\* decrypted under symkey.
AuthDecrypt(symkey, mackey, ct) ==
    IF ct.k = "ct" /\ ct.flip = 0 /\ ct.mac = mackey
    THEN [err |-> "nil", out |-> IF ct.sym = symkey THEN ct.pt ELSE Garbled]
    ELSE [err |-> "AuthenticationFailedError", out |-> NilBytes]

\* ------------------------------------------------------- crypto/x509
\* MarshalPKIXPublicKey / ParsePKIXPublicKey: the parsed key keeps the
\* algorithm of the encoded key (RSA, ECDSA, ...).
MarshalPKIX(pub) == [k |-> "pkix", key |-> pub]
ParsePKIX(in) ==
    IF in.k = "pkix"
    THEN [err |-> "nil", key |-> in.key]
    ELSE [err |-> "DecodeError", key |-> [alg |-> "none", id |-> "none"]]

\* ------------------------------------------------------------- state
VARIABLES
    sessions,   \* the SessionKey objects created so far: key, signedKey, peer
    nextKey,    \* DH private values handed out so far by dhkam.GenerateKey
    wire,       \* envelopes returned by Encrypt, in order, with what went in
    leaked,     \* private keys the adversary has learnt: DH values, identities
    bound,      \* per session: arguments of the last successful PeerSessionKey
    last,       \* the last call and what it returned
    conn,       \* hap: the connection, one byte queue per direction
    chal,       \* hap: the Challenge run: position, locals, result
    auth,       \* hap: the Authenticate run: position, locals, result
    call        \* hap: the last direct Validate call and its result

hapVars == <<conn, chal, auth, call>>
vars == <<sessions, nextKey, wire, leaked, bound, last, conn, chal, auth, call>>

NoCall == [op |-> "none", s |-> "none", peer |-> "none", in |-> NilBytes,
           err |-> "nil", out |-> NilBytes]

NoLeak == [dh |-> {}, id |-> {}]

Running == last.err # "panic"

\* hap before any run: no connection, no call.
NoConn == [s2c |-> <<>>, c2s |-> <<>>, closed |-> TRUE]
NoRun == [pc |-> "none", password |-> <<>>, challenge |-> <<>>,
          response |-> <<>>, valid |-> FALSE, ok |-> FALSE, err |-> "nil"]
NoValidate == [op |-> "none", password |-> <<>>, challenge |-> <<>>,
               response |-> <<>>, result |-> FALSE]

Init ==
    /\ sessions = <<>>
    /\ nextKey = 0
    /\ wire = <<>>
    /\ leaked = NoLeak
    /\ bound = <<>>
    /\ last = NoCall
    /\ conn = NoConn
    /\ chal = NoRun
    /\ auth = NoRun
    /\ call = NoValidate

\* The sessions created so far; each identity opens one session.
Sess == DOMAIN sessions

\* ------------------------------------------------------ NewSessionKey
\* The error of the primitive that fails in a NewSessionKey call: GenerateKey,
\* pks.Sign or asn1.Marshal.
NewSessionKeyErr(fail) ==
    CASE fail = "gen" -> "KeyGenerationError"
      [] fail = "sign" -> "SigningError"
      [] fail = "encode" -> "EncodeError"
      [] OTHER -> "nil"

\* Variant that hands back the object built so far when signing or encoding
\* fails: the key is set, signedKey is still the nil slice.
NewSessionKeyPartial(id, fail) ==
    LET key == nextKey + 1
        Public == Export(key)
        err == NewSessionKeyErr(fail)
        skey == [key |-> key,
                 signedKey |-> IF err = "nil"
                               THEN Marshal(Public, Sign(id, Public))
                               ELSE NilBytes,
                 peer |-> Nil]
    IN  /\ Running
        /\ id \notin Sess
        /\ nextKey < MaxKeys
        /\ IF fail = "gen"
           THEN /\ last' = [NoCall EXCEPT !.op = "NewSessionKey", !.peer = id,
                                          !.err = err]
                /\ UNCHANGED <<sessions, nextKey, bound>>
           ELSE /\ sessions' = sessions @@ (id :> skey)
                /\ bound' = bound @@ (id :> Nil)
                /\ nextKey' = key
                /\ last' = [NoCall EXCEPT !.op = "NewSessionKey", !.s = id,
                                !.peer = id, !.err = err,
                                !.out = skey.signedKey]
        /\ UNCHANGED <<wire, leaked>>

\* IdentityKey.NewSessionKey as written; fail names the primitive that fails.
\* last.s is the session object returned ("none" for the nil pointer),
\* last.peer the identity the method was called on.
NewSessionKey(id, fail) ==
    LET key == nextKey + 1
        Public == Export(key)
        err == NewSessionKeyErr(fail)
        skey == [key |-> key,
                 signedKey |-> Marshal(Public, Sign(id, Public)),
                 peer |-> Nil]
    IN  /\ Running
        /\ id \notin Sess
        /\ nextKey < MaxKeys
        /\ IF err # "nil"
           THEN /\ last' = [NoCall EXCEPT !.op = "NewSessionKey", !.peer = id,
                                          !.err = err]
                /\ UNCHANGED <<sessions, nextKey, bound>>
           ELSE /\ sessions' = sessions @@ (id :> skey)
                /\ bound' = bound @@ (id :> Nil)
                /\ nextKey' = key
                /\ last' = [NoCall EXCEPT !.op = "NewSessionKey", !.s = id,
                                !.peer = id, !.out = skey.signedKey]
        /\ UNCHANGED <<wire, leaked>>

\* ------------------------------------------------- SessionKey.Public
\* Variant that hands the export out once and then forgets it.
SessionPublicOnce(s) ==
    /\ Running
    /\ s \in Sess
    /\ last' = [NoCall EXCEPT !.op = "Public", !.s = s,
                    !.out = sessions[s].signedKey]
    /\ sessions' = [sessions EXCEPT ![s].signedKey = NilBytes]
    /\ UNCHANGED <<nextKey, wire, leaked, bound>>

\* SessionKey.Public() on the session of identity s: returns skey.signedKey.
SessionPublic(s) ==
    /\ Running
    /\ s \in Sess
    /\ last' = [NoCall EXCEPT !.op = "Public", !.s = s,
                    !.out = sessions[s].signedKey]
    /\ UNCHANGED <<sessions, nextKey, wire, leaked, bound>>

\* ----------------------------------------------------- PeerSessionKey
\* SessionKey.PeerSessionKey(peer, session) on the session of identity s.
\* Variant without the pks.Verify step.
PeerSessionKeyNoVerify(s, peer, session) ==
    LET signedKey == Unmarshal(session)
        imp == ImportPublic(signedKey.a)
        err == IF signedKey.err # "nil" THEN signedKey.err ELSE imp.err
    IN  /\ Running
        /\ s \in Sess
        /\ last' = [NoCall EXCEPT !.op = "PeerSessionKey", !.s = s,
                        !.peer = peer.id, !.in = session, !.err = err]
        /\ IF err = "nil"
           THEN /\ sessions' = [sessions EXCEPT ![s].peer = imp.pub]
                /\ bound' = [bound EXCEPT ![s] = Ptr([peer |-> peer.id, in |-> session])]
           ELSE UNCHANGED <<sessions, bound>>
        /\ UNCHANGED <<nextKey, wire, leaked>>

\* Variant that stores the imported value before looking at the signature.
PeerSessionKeyEarlyStore(s, peer, session) ==
    LET signedKey == Unmarshal(session)
        imp == ImportPublic(signedKey.a)
        err == IF signedKey.err # "nil" THEN signedKey.err
               ELSE IF ~Verify(peer, signedKey.a, signedKey.b)
                    THEN "SignatureInvalidError"
                    ELSE imp.err
    IN  /\ Running
        /\ s \in Sess
        /\ last' = [NoCall EXCEPT !.op = "PeerSessionKey", !.s = s,
                        !.peer = peer.id, !.in = session, !.err = err]
        /\ IF signedKey.err = "nil" /\ imp.err = "nil"
           THEN sessions' = [sessions EXCEPT ![s].peer = imp.pub]
           ELSE UNCHANGED sessions
        /\ IF err = "nil"
           THEN bound' = [bound EXCEPT ![s] = Ptr([peer |-> peer.id, in |-> session])]
           ELSE UNCHANGED bound
        /\ UNCHANGED <<nextKey, wire, leaked>>

\* The method as written: decode, verify, import, store.
PeerSessionKey(s, peer, session) ==
    LET signedKey == Unmarshal(session)
        imp == ImportPublic(signedKey.a)
        err == IF signedKey.err # "nil" THEN signedKey.err
               ELSE IF ~Verify(peer, signedKey.a, signedKey.b)
                    THEN "SignatureInvalidError"
                    ELSE imp.err
    IN  /\ Running
        /\ s \in Sess
        /\ last' = [NoCall EXCEPT !.op = "PeerSessionKey", !.s = s,
                        !.peer = peer.id, !.in = session, !.err = err]
        /\ IF err = "nil"
           THEN /\ sessions' = [sessions EXCEPT ![s].peer = imp.pub]
                /\ bound' = [bound EXCEPT ![s] = Ptr([peer |-> peer.id, in |-> session])]
           ELSE UNCHANGED <<sessions, bound>>
        /\ UNCHANGED <<nextKey, wire, leaked>>

\* Signed exports session s may be handed in PeerSessionKey: the other
\* sessions' exports, exports the adversary makes for its own DH value or
\* for an invalid group element, a signature moved onto another public
\* value, and bytes that do not decode.
ExportInputs(s) ==
    {sessions[i].signedKey : i \in Sess \ {s}}
    \cup {Marshal(Export(v), Sign(Eve, Export(v))) : v \in {0, AdvKey}}
    \cup {Marshal(Export(AdvKey), Sign(Eve, Export(0)))}
    \cup {Junk}

\* ------------------------------------------------------------ Encrypt
\* The body of SessionKey.Encrypt on session object skey: eph is the private
\* value dhkam.GenerateKey returns, fail the primitive that fails (if any).
\* With a nil peer the outcome is that of dhkam's SharedKey on a nil public
\* key, whose source is not part of this package: it either reports an error
\* ("nilerr") or dereferences the nil pointer ("nilpanic").
\* Variant that agrees with the session's static key instead of a fresh one.
EncryptCoreStatic(skey, eph, message, fail) ==
    IF fail = "gen" THEN [err |-> "KeyGenerationError", out |-> NilBytes]
    ELSE IF skey.peer = Nil
    THEN [err |-> IF fail = "nilpanic" THEN "panic" ELSE "KeyAgreementError",
          out |-> NilBytes]
    ELSE LET shared == SharedKey(skey.key, skey.peer, sharedKeyLen)
             symkey == SliceTo(shared, SymKeyLen)
             mackey == SliceFrom(shared, SymKeyLen)
         IN  IF fail = "cipher" THEN [err |-> "EncryptionError", out |-> NilBytes]
             ELSE [err |-> "nil",
                   out |-> Marshal(Export(skey.key), AuthEncrypt(symkey, mackey, message))]

\* The shared secret Encrypt derives from the ephemeral private value and the
\* stored peer value, and the two keys it cuts from it.
EncryptKeys(eph, peer) ==
    LET shared == SharedKey(eph, peer, sharedKeyLen)
    IN  [shared |-> shared,
         symkey |-> SliceTo(shared, SymKeyLen),
         mackey |-> SliceFrom(shared, SymKeyLen)]

\* The method as written: a fresh key pair per call.
EncryptCore(skey, eph, message, fail) ==
    IF fail = "gen" THEN [err |-> "KeyGenerationError", out |-> NilBytes]
    ELSE IF skey.peer = Nil
    THEN [err |-> IF fail = "nilpanic" THEN "panic" ELSE "KeyAgreementError",
          out |-> NilBytes]
    ELSE LET keys == EncryptKeys(eph, skey.peer)
         IN  IF fail = "cipher" THEN [err |-> "EncryptionError", out |-> NilBytes]
             ELSE [err |-> "nil",
                   out |-> Marshal(Export(eph),
                                   AuthEncrypt(keys.symkey, keys.mackey, message))]

\* SessionKey.Encrypt(message) on the session of identity s.  wire records
\* each returned envelope with the plaintext and the peer value it was made
\* for.
Encrypt(s, m, fail) ==
    LET eph == nextKey + 1
        r == EncryptCore(sessions[s], eph, Plain(m), fail)
    IN  /\ Running
        /\ s \in Sess
        /\ nextKey < MaxKeys
        /\ nextKey' = IF r.err = "nil" THEN eph ELSE nextKey
        /\ last' = [NoCall EXCEPT !.op = "Encrypt", !.s = s, !.in = Plain(m),
                        !.err = r.err, !.out = r.out]
        /\ wire' = IF r.err = "nil"
                   THEN Append(wire, [env |-> r.out, pt |-> Plain(m),
                                      to |-> Deref(sessions[s].peer)])
                   ELSE wire
        /\ UNCHANGED <<sessions, leaked, bound>>

\* ------------------------------------------------------------ Decrypt
\* The body of SessionKey.Decrypt: key is skey.key, in the bytes received.
\* Variant that takes the two key segments in the other order.
DecryptCoreSwapped(key, in) ==
    LET ephem == Unmarshal(in)
        imp == ImportPublic(ephem.a)
    IN  IF ephem.err # "nil" THEN [err |-> ephem.err, out |-> NilBytes]
        ELSE IF imp.err # "nil" THEN [err |-> imp.err, out |-> NilBytes]
        ELSE LET shared == SharedKey(key, imp.pub, sharedKeyLen)
                 symkey == SliceFrom(shared, SymKeyLen)
                 mackey == SliceTo(shared, SymKeyLen)
             IN  AuthDecrypt(symkey, mackey, ephem.b)

\* Variant that drops the error authsym.Decrypt returns.
DecryptCoreNoAuth(key, in) ==
    LET ephem == Unmarshal(in)
        imp == ImportPublic(ephem.a)
    IN  IF ephem.err # "nil" THEN [err |-> ephem.err, out |-> NilBytes]
        ELSE IF imp.err # "nil" THEN [err |-> imp.err, out |-> NilBytes]
        ELSE LET shared == SharedKey(key, imp.pub, sharedKeyLen)
                 symkey == SliceTo(shared, SymKeyLen)
                 mackey == SliceFrom(shared, SymKeyLen)
             IN  [AuthDecrypt(symkey, mackey, ephem.b) EXCEPT !.err = "nil"]

\* Variant that asks for a shared secret of twice the cipher key length, so
\* that the integrity key is as long as the confidentiality key.
DecryptKeysShort(key, pub) ==
    LET shared == SharedKey(key, pub, 2 * SymKeyLen)
    IN  [shared |-> shared,
         symkey |-> SliceTo(shared, SymKeyLen),
         mackey |-> SliceFrom(shared, SymKeyLen)]

\* The shared secret Decrypt derives from the session's own private value
\* and the public value of the envelope, and the two keys it cuts from it.
DecryptKeys(key, pub) ==
    LET shared == SharedKey(key, pub, sharedKeyLen)
    IN  [shared |-> shared,
         symkey |-> SliceTo(shared, SymKeyLen),
         mackey |-> SliceFrom(shared, SymKeyLen)]

\* The method as written.
DecryptCore(key, in) ==
    LET ephem == Unmarshal(in)
        imp == ImportPublic(ephem.a)
    IN  IF ephem.err # "nil" THEN [err |-> ephem.err, out |-> NilBytes]
        ELSE IF imp.err # "nil" THEN [err |-> imp.err, out |-> NilBytes]
        ELSE LET keys == DecryptKeys(key, imp.pub)
             IN  AuthDecrypt(keys.symkey, keys.mackey, ephem.b)

\* Variant that remembers the sender: the public value of the envelope is
\* stored as the session's peer before the tag is checked.
DecryptStoresPeer(s, in) ==
    LET r == DecryptCore(sessions[s].key, in)
        imp == ImportPublic(Unmarshal(in).a)
    IN  /\ Running
        /\ s \in Sess
        /\ last' = [NoCall EXCEPT !.op = "Decrypt", !.s = s, !.in = in,
                        !.err = r.err, !.out = r.out]
        /\ sessions' = IF imp.err = "nil"
                       THEN [sessions EXCEPT ![s].peer = imp.pub]
                       ELSE sessions
        /\ UNCHANGED <<nextKey, wire, leaked, bound>>

\* Variant that refuses to decrypt until the handshake is complete on the
\* receiving side.
DecryptNeedsPeer(s, in) ==
    LET r == IF sessions[s].peer = Nil
             THEN [err |-> "KeyAgreementError", out |-> NilBytes]
             ELSE DecryptCore(sessions[s].key, in)
    IN  /\ Running
        /\ s \in Sess
        /\ last' = [NoCall EXCEPT !.op = "Decrypt", !.s = s, !.in = in,
                        !.err = r.err, !.out = r.out]
        /\ UNCHANGED <<sessions, nextKey, wire, leaked, bound>>

\* SessionKey.Decrypt(in) on the session of identity s.
Decrypt(s, in) ==
    LET r == DecryptCore(sessions[s].key, in)
    IN  /\ Running
        /\ s \in Sess
        /\ last' = [NoCall EXCEPT !.op = "Decrypt", !.s = s, !.in = in,
                        !.err = r.err, !.out = r.out]
        /\ UNCHANGED <<sessions, nextKey, wire, leaked, bound>>

\* An envelope the adversary makes itself for the public value pub (public
\* values travel in the clear inside the signed exports).
AdvEnvelope(pub, m) ==
    EncryptCore([key |-> AdvKey, signedKey |-> NilBytes, peer |-> Ptr(pub)],
                AdvKey, Plain(m), "none").out

\* Bytes a caller may hand to Decrypt: envelopes from the wire; the same with
\* a bit of CT flipped, with Pub re-encoded with a leading zero byte, with
\* Pub or CT taken from elsewhere; envelopes made by
\* the adversary; bytes that do not decode.
EnvelopeInputs ==
    LET envs == {wire[i].env : i \in 1..Len(wire)}
        pubs == {e.a : e \in envs} \cup {Export(0)}
    IN  envs
        \cup {[e EXCEPT !.b.flip = 1] : e \in envs}
        \cup {[e EXCEPT !.a.pad = 1] : e \in envs}
        \cup {[e EXCEPT !.a = p] : e \in envs, p \in pubs}
        \cup {AdvEnvelope(sessions[i].key, "m1") : i \in Sess}
        \cup {Junk}

\* ------------------------------------------------- ImportPeerIdentity
\* IdentityKey.Public: the PKIX encoding of the identity's public key.
Public(id) == MarshalPKIX(RsaPub(id))

\* ImportPeerIdentity(in): nil input and undecodable input give nil; the
\* parsed key is then asserted to be an *rsa.PublicKey with the one-result
\* form of the type assertion, which panics on any other key type.
ImportPeerIdentity(in) ==
    IF in = NilBytes THEN [err |-> "nil", out |-> Nil]
    ELSE LET cert == ParsePKIX(in)
         IN  IF cert.err # "nil" THEN [err |-> "nil", out |-> Nil]
             ELSE IF cert.key.alg = "rsa" THEN [err |-> "nil", out |-> Ptr(cert.key)]
             ELSE [err |-> "panic", out |-> Nil]

\* Encoded identities a caller may import.
IdentityInputs ==
    {Public(id) : id \in AllIds}
    \cup {MarshalPKIX([alg |-> "ecdsa", id |-> Eve]), Junk, NilBytes}

ImportIdentity(in) ==
    LET r == ImportPeerIdentity(in)
    IN  /\ Running
        /\ last' = [NoCall EXCEPT !.op = "ImportPeerIdentity", !.in = in,
                        !.err = r.err,
                        !.out = IF r.out = Nil THEN NilBytes ELSE Deref(r.out)]
        /\ UNCHANGED <<sessions, nextKey, wire, leaked, bound>>

\* ---------------------------------------------------------- adversary
\* The adversary learns the static private value of session s.
LeakSessionKey(s) ==
    /\ s \in Sess
    /\ leaked' = [leaked EXCEPT !.dh = @ \cup {sessions[s].key}]
    /\ UNCHANGED <<sessions, nextKey, wire, bound, last>>

\* The adversary learns the long-term private key of identity id.
LeakIdentity(id) ==
    /\ leaked' = [leaked EXCEPT !.id = @ \cup {id}]
    /\ UNCHANGED <<sessions, nextKey, wire, bound, last>>

\* The DH private values the adversary holds, and the public values it has
\* seen: those of the recorded exports and envelopes and its own.
AdvKeys == {AdvKey} \cup leaked.dh
AdvPubs ==
    {sessions[s].signedKey.a : s \in Sess}
    \cup {wire[i].env.a : i \in 1..Len(wire)} \cup {Export(AdvKey)}

\* The recorded envelopes whose plaintext the adversary obtains: it derives
\* the shared secret of a private value it holds and a public value it has
\* seen, splits it as Encrypt and Decrypt do, and runs the cipher on CT.
AdvPlain ==
    {i \in 1..Len(wire) : \E key \in AdvKeys, p \in AdvPubs :
        LET shared == SharedKey(key, ImportPublic(p).pub, sharedKeyLen)
        IN  AuthDecrypt(SliceTo(shared, SymKeyLen), SliceFrom(shared, SymKeyLen),
                        wire[i].env.b) = [err |-> "nil", out |-> wire[i].pt]}

\* The primitive outcomes of a NewSessionKey call.
NewSessionKeyFails == {"none", "gen", "sign", "encode"}

\* The primitive outcomes that can show in an Encrypt call: SharedKey is
\* reached with a nil peer or with a validated one.
EncryptFails(s) ==
    IF sessions[s].peer = Nil THEN {"gen", "nilerr", "nilpanic"}
    ELSE {"none", "gen", "cipher"}

Calls ==
    \/ \E id \in Honest, fail \in NewSessionKeyFails : NewSessionKey(id, fail)
    \/ \E s \in Sess, id \in AllIds : \E session \in ExportInputs(s) :
           PeerSessionKey(s, RsaPub(id), session)
    \/ \E s \in Sess, m \in Msgs : \E fail \in EncryptFails(s) : Encrypt(s, m, fail)
    \/ \E s \in Sess, in \in EnvelopeInputs : Decrypt(s, in)
    \/ \E in \in IdentityInputs : ImportIdentity(in)
    \/ \E s \in Sess : SessionPublic(s)

\* The forwardsec calls touch nothing of package hap.
Next == Calls /\ UNCHANGED hapVars

Spec == Init /\ [][Next]_vars

\* The sessions run while the adversary records the exports and envelopes;
\* afterwards it learns private keys.  Of the calls, those that change a
\* session or the wire are kept: Decrypt and ImportPeerIdentity write
\* nothing but the record of the last call, which the statements about the
\* adversary do not read.
LeakSteps ==
    \/ /\ leaked = NoLeak
       /\ \/ \E id \in Honest, fail \in NewSessionKeyFails : NewSessionKey(id, fail)
          \/ \E s \in Sess, id \in AllIds : \E session \in ExportInputs(s) :
                 PeerSessionKey(s, RsaPub(id), session)
          \/ \E s \in Sess, m \in Msgs : \E fail \in EncryptFails(s) :
                 Encrypt(s, m, fail)
    \/ \E s \in Sess : LeakSessionKey(s)
    \/ \E id \in Honest : LeakIdentity(id)

NextLeak == LeakSteps /\ UNCHANGED hapVars

SpecLeak == Init /\ [][NextLeak]_vars

\* =================================================================
\* Package hap: challenge/response authentication over a connection
\* =================================================================
\* Strings and byte strings are sequences.  A byte of a digest is named by
\* the hashed input and its index (Keccak-512 is taken as collision free);
\* OtherByte is a byte value that differs from every digest byte used.
Passwords == {<<"p">>, <<"p", "1">>}
Challenges == {<<"1", "1">>, <<"1", "2">>}
OtherByte == [h |-> <<>>, i |-> 0]

Min(a, b) == IF a < b THEN a ELSE b

\* hash(in): the Keccak-512 digest of in.
hash(in) == [i \in 1..HashSize |-> [h |-> in, i |-> i]]

\* Response(password, challenge): the digest of the concatenated strings.
Response(password, challenge) == hash(password \o challenge)

\* subtle.ConstantTimeByteEq.
ConstantTimeByteEq(x, y) == IF x = y THEN 1 ELSE 0

\* The loop of matchHash: the number of indexes up to size at which the two
\* byte strings agree.
RECURSIVE Matched(_, _, _)
Matched(hash1, hash2, size) ==
    IF size = 0 THEN 0
    ELSE Matched(hash1, hash2, size - 1)
             + ConstantTimeByteEq(hash1[size], hash2[size])

\* Variant without the comparison of the two lengths.
matchHashPrefix(hash1, hash2) ==
    LET size == Min(Len(hash1), Len(hash2))
        matched == Matched(hash1, hash2, size)
    IN  matched = size

\* matchHash as written: compare over the shorter length, then require the
\* lengths to be equal.
matchHash(hash1, hash2) ==
    LET size == IF Len(hash1) > Len(hash2) THEN Len(hash2) ELSE Len(hash1)
        matched == Matched(hash1, hash2, size)
        match == (matched = size)
        sameSize == (Len(hash1) = Len(hash2))
    IN  match /\ sameSize

Validate(password, challenge, response) ==
    LET valid == Response(password, challenge)
    IN  matchHash(valid, response)

\* Byte strings a caller may hand to Validate for (p, c): the right
\* response, its proper prefixes, the response with a byte appended, with
\* one byte changed, and the responses for the other passwords and
\* challenges.
ResponseInputs(p, c) ==
    LET good == Response(p, c)
    IN  {SubSeq(good, 1, n) : n \in 0..Len(good)}
        \cup {Append(good, OtherByte)}
        \cup {[good EXCEPT ![i] = OtherByte] : i \in 1..Len(good)}
        \cup {Response(q, d) : q \in Passwords, d \in Challenges}

\* A direct call of Validate.
ValidateCall(p, c, r) ==
    /\ call' = [op |-> "Validate", password |-> p, challenge |-> c,
                response |-> r, result |-> Validate(p, c, r)]
    /\ UNCHANGED <<conn, chal, auth>>

\* conn.Read into a buffer of size bytes from the queue q: some, not
\* necessarily all, of the bytes that have arrived are returned.
ReadSizes(q, size) == 1..Min(Len(q), size)
Rest(q, n) == SubSeq(q, n + 1, Len(q))

\* Challenge(conn, password): write the challenge.
ChallengeWrite ==
    /\ chal.pc = "write"
    /\ IF conn.closed
       THEN /\ chal' = [chal EXCEPT !.pc = "done", !.err = "write"]
            /\ UNCHANGED conn
       ELSE /\ conn' = [conn EXCEPT !.s2c = @ \o chal.challenge]
            /\ chal' = [chal EXCEPT !.pc = "read"]
    /\ UNCHANGED <<auth, call>>

\* Challenge: read the response into a buffer of ResponseLength bytes and
\* validate it; on a mismatch return (with a nil error).
ChallengeRead ==
    /\ chal.pc = "read"
    /\ \/ /\ conn.c2s = <<>> /\ conn.closed
          /\ chal' = [chal EXCEPT !.pc = "done", !.err = "EOF"]
          /\ UNCHANGED conn
       \/ \E n \in ReadSizes(conn.c2s, ResponseLength) :
              LET response == SubSeq(conn.c2s, 1, n)
                  valid == Validate(chal.password, chal.challenge, response)
              IN  /\ conn' = [conn EXCEPT !.c2s = Rest(@, n)]
                  /\ chal' = [chal EXCEPT !.response = response,
                                          !.valid = valid,
                                          !.pc = IF valid THEN "ok" ELSE "done"]
    /\ UNCHANGED <<auth, call>>

\* Challenge: write "ok" (the result of the write is not looked at).
ChallengeOk ==
    /\ chal.pc = "ok"
    /\ conn' = IF conn.closed THEN conn
               ELSE [conn EXCEPT !.s2c = @ \o <<"o", "k">>]
    /\ chal' = [chal EXCEPT !.pc = "done", !.ok = ~conn.closed]
    /\ UNCHANGED <<auth, call>>

\* Authenticate(conn, password): read the challenge into a buffer of
\* ResponseLength bytes.
AuthenticateRead ==
    /\ auth.pc = "read"
    /\ \/ /\ conn.s2c = <<>> /\ conn.closed
          /\ auth' = [auth EXCEPT !.pc = "done", !.err = "EOF"]
          /\ UNCHANGED conn
       \/ \E n \in ReadSizes(conn.s2c, ResponseLength) :
              /\ conn' = [conn EXCEPT !.s2c = Rest(@, n)]
              /\ auth' = [auth EXCEPT !.challenge = SubSeq(conn.s2c, 1, n),
                                      !.pc = "write"]
    /\ UNCHANGED <<chal, call>>

\* Authenticate: write the response to the challenge read.
AuthenticateWrite ==
    /\ auth.pc = "write"
    /\ IF conn.closed
       THEN /\ auth' = [auth EXCEPT !.pc = "done", !.err = "write"]
            /\ UNCHANGED conn
       ELSE LET response == Response(auth.password, auth.challenge)
            IN  /\ conn' = [conn EXCEPT !.c2s = @ \o response]
                /\ auth' = [auth EXCEPT !.response = response, !.pc = "readOk"]
    /\ UNCHANGED <<chal, call>>

\* Authenticate: read into the two-byte buffer ok and return the error of
\* that read; the bytes read are not looked at.
AuthenticateReadOk ==
    /\ auth.pc = "readOk"
    /\ \/ /\ conn.s2c = <<>> /\ conn.closed
          /\ auth' = [auth EXCEPT !.pc = "done", !.err = "EOF"]
          /\ UNCHANGED conn
       \/ \E n \in ReadSizes(conn.s2c, OkLength) :
              /\ conn' = [conn EXCEPT !.s2c = Rest(@, n)]
              /\ auth' = [auth EXCEPT !.pc = "done", !.ok = TRUE]
    /\ UNCHANGED <<chal, call>>

\* The connection fails or is closed.
Close ==
    /\ ~conn.closed
    /\ conn' = [conn EXCEPT !.closed = TRUE]
    /\ UNCHANGED <<chal, auth, call>>

\* A Challenge run and an Authenticate run on the two ends of a fresh
\* connection, each with its password; the challenge is the one
\* generateChallenge draws.
InitHap ==
    /\ sessions = <<>>
    /\ nextKey = 0
    /\ wire = <<>>
    /\ leaked = NoLeak
    /\ bound = <<>>
    /\ last = NoCall
    /\ conn = [NoConn EXCEPT !.closed = FALSE]
    /\ \E pwS \in Passwords, c \in Challenges :
           chal = [NoRun EXCEPT !.pc = "write", !.password = pwS, !.challenge = c]
    /\ \E pwC \in Passwords :
           auth = [NoRun EXCEPT !.pc = "read", !.password = pwC]
    /\ call = NoValidate

HapSteps ==
    \/ ChallengeWrite
    \/ ChallengeRead
    \/ ChallengeOk
    \/ AuthenticateRead
    \/ AuthenticateWrite
    \/ AuthenticateReadOk
    \/ Close
    \/ \E p \in Passwords, c \in Challenges : \E r \in ResponseInputs(p, c) :
           ValidateCall(p, c, r)

\* The hap runs touch nothing of package forwardsec.
NextHap ==
    HapSteps /\ UNCHANGED <<sessions, nextKey, wire, leaked, bound, last>>

SpecHap == InitHap /\ [][NextHap]_vars

\* =================================================================
\* Properties
\* =================================================================

\* Session B holds the validated public value of session A and A that of B.
Mutual(A, B) ==
    /\ A \in Sess /\ B \in Sess /\ A # B
    /\ sessions[A].peer = Ptr(sessions[B].key)
    /\ sessions[B].peer = Ptr(sessions[A].key)

\* The decoded fields of the bytes handed to the last call.
LastIn == Unmarshal(last.in)

\* C1 (round trip): when session B decrypts an envelope that Encrypt
\* returned on a session whose validated peer value was B's public value,
\* Decrypt returns the plaintext that was encrypted, without error,
\* whatever calls came before on either session.
C1_RoundTrip ==
    \A i \in 1..Len(wire) :
        (/\ last.op = "Decrypt"
         /\ last.in = wire[i].env
         /\ sessions[last.s].key = wire[i].to)
        => (last.err = "nil" /\ last.out = wire[i].pt)

\* Witness for C1: after a mutual handshake, B has decrypted an envelope
\* that A encrypted, and a second envelope was produced before.
C1_Witness ==
    \E A \in Sess, B \in Sess :
        /\ Mutual(A, B)
        /\ Len(wire) >= 2
        /\ last.op = "Decrypt" /\ last.s = B /\ last.err = "nil"
        /\ \E i \in 1..Len(wire) :
               last.in = wire[i].env /\ wire[i].to = sessions[B].key

C3_FailedPeerKeepsSession ==
    [][(last'.op = "PeerSessionKey" /\ last'.err # "nil")
       => sessions' = sessions]_vars

\* Witness for C3: a call failed on signature verification on a session
\* whose peer was already set, and the peer is still the value stored by
\* the earlier successful call.
C3_Witness ==
    /\ last.op = "PeerSessionKey"
    /\ last.err = "SignatureInvalidError"
    /\ sessions[last.s].peer # Nil
    /\ sessions[last.s].peer = ImportPublic(Unmarshal(Deref(bound[last.s]).in).a).pub
    /\ ImportPublic(LastIn.a).pub # sessions[last.s].peer
    /\ ImportPublic(LastIn.a).err = "nil"

\* C4 (peer invariant): a session's peer is unset as long as no
\* PeerSessionKey call on it has succeeded, and when set it is the public
\* value of an export whose signature verifies under the peer identity
\* given to the last successful call.
C4_PeerInvariant ==
    \A s \in Sess :
        /\ bound[s] = Nil => sessions[s].peer = Nil
        /\ bound[s] # Nil =>
               LET b == Deref(bound[s])
                   sk == Unmarshal(b.in)
               IN  /\ sk.err = "nil"
                   /\ Verify(RsaPub(b.peer), sk.a, sk.b)
                   /\ ImportPublic(sk.a).err = "nil"
                   /\ sessions[s].peer = ImportPublic(sk.a).pub

\* Witness for C4: one session is still unbound while another holds a
\* validated peer value.
C4_Witness ==
    \E s \in Sess, t \in Sess :
        /\ sessions[s].peer = Nil /\ bound[s] = Nil
        /\ sessions[t].peer # Nil /\ bound[t] # Nil

\* The adversary has learnt the static private value of session s / the
\* long-term private key of identity id.
LeakedDH(v) == v \in leaked.dh
LeakedId(id) == id \in leaked.id

\* C6 as stated (forward secrecy against either party's session-static
\* value and against identity keys): the plaintext of an envelope that was
\* encrypted for an honest session is never obtained by the adversary,
\* whatever private keys it learns after the envelope was made.
C6_ForwardSecrecyAsStated ==
    \A i \in 1..Len(wire) : wire[i].to # AdvKey => i \notin AdvPlain

\* C6 as amended: the adversary obtains the plaintext of an envelope that
\* was encrypted for an honest session only if it has afterwards learnt the
\* static private value of the session the envelope was encrypted for;
\* identity private keys and the sending session's static private value do
\* not expose it.
C6_ForwardSecrecy ==
    \A i \in 1..Len(wire) :
        (wire[i].to # AdvKey /\ i \in AdvPlain) => LeakedDH(wire[i].to)

\* Witness for C6: an envelope encrypted for the other honest session;
\* afterwards the sender's static private value and both identity keys
\* leaked, and the adversary still has no plaintext for it.
C6_Witness ==
    \E i \in 1..Len(wire), A \in Sess, B \in Sess :
        /\ A # B
        /\ wire[i].to = sessions[B].key
        /\ LeakedDH(sessions[A].key) /\ ~LeakedDH(sessions[B].key)
        /\ \A id \in Honest : LeakedId(id)
        /\ i \notin AdvPlain

\* The last call was a Decrypt by the session that envelope i was made for,
\* on bytes that decode into two fields.
DecryptFor(i) ==
    /\ last.op = "Decrypt"
    /\ sessions[last.s].key = wire[i].to
    /\ LastIn.err = "nil"

\* C7 as stated (tamper rejection): Decrypt of any envelope that differs
\* from an envelope E made for the session in CT or in Pub returns an error.
C7_TamperAsStated ==
    \A i \in 1..Len(wire) :
        (DecryptFor(i) /\ (LastIn.a # wire[i].env.a \/ LastIn.b # wire[i].env.b))
        => last.err # "nil"

\* C7 as amended: Decrypt returns an error for an envelope that keeps one
\* field of E and changes the other: the same Pub with a different CT, or
\* the same CT with a Pub that is no valid public value or decodes to a
\* different public value.
C7_TamperRejected ==
    \A i \in 1..Len(wire) :
        (/\ DecryptFor(i)
         /\ \/ (LastIn.a = wire[i].env.a /\ LastIn.b # wire[i].env.b)
            \/ (/\ LastIn.b = wire[i].env.b
                /\ ImportPublic(LastIn.a).pub # ImportPublic(wire[i].env.a).pub))
        => last.err # "nil" /\ last.out = NilBytes

\* Witness for C7: the session an envelope was made for has been handed
\* that envelope with a bit of CT changed and rejected it on the tag.
C7_Witness ==
    \E i \in 1..Len(wire) :
        /\ DecryptFor(i)
        /\ LastIn.a = wire[i].env.a
        /\ LastIn.b = [wire[i].env.b EXCEPT !.flip = 1]
        /\ last.err = "AuthenticationFailedError"

C9_FreshEphemeral ==
    \A i \in 1..Len(wire), j \in 1..Len(wire) :
        i # j => /\ wire[i].env.a # wire[j].env.a
                 /\ wire[i].env # wire[j].env

\* Witness for C9: two Encrypt calls with the same plaintext and the same
\* peer value have returned envelopes.
C9_Witness ==
    \E i \in 1..Len(wire), j \in 1..Len(wire) :
        /\ i # j
        /\ wire[i].pt = wire[j].pt
        /\ wire[i].to = wire[j].to

\* C10 (ImportPeerIdentity rejects): for bytes that do not decode as a
\* public key, and for bytes that decode to a key that is not an RSA key,
\* ImportPeerIdentity returns nil and does not panic.
C10_ImportRejects ==
    (/\ last.op = "ImportPeerIdentity"
     /\ (ParsePKIX(last.in).err # "nil" \/ ParsePKIX(last.in).key.alg # "rsa"))
    => (last.err = "nil" /\ last.out = NilBytes)

\* C11 (all-or-nothing construction): a NewSessionKey call in which key
\* generation, signing or encoding fails returns no session object; every
\* session object that exists has its private agreement key set and a
\* signedKey that decodes to its own public value and a signature over that
\* value that verifies under the creating identity; a session just returned
\* has its peer unset.
C11_AllOrNothing ==
    /\ (last.op = "NewSessionKey" /\ last.err # "nil")
           => (last.s = "none" /\ last.out = NilBytes /\ last.peer \notin Sess)
    /\ (last.op = "NewSessionKey" /\ last.err = "nil")
           => (/\ last.s = last.peer
               /\ last.s \in Sess
               /\ sessions[last.s].peer = Nil
               /\ last.out = sessions[last.s].signedKey)
    /\ \A s \in Sess :
           LET sk == Unmarshal(sessions[s].signedKey)
           IN  /\ sessions[s].key \in 1..nextKey
               /\ sk.err = "nil"
               /\ sk.a = Export(sessions[s].key)
               /\ Verify(RsaPub(s), sk.a, sk.b)

\* Witness for C11: one identity holds a complete session, and the call of
\* the other identity has just failed in signing and returned nothing.
C11_Witness ==
    /\ last.op = "NewSessionKey"
    /\ last.err = "SigningError"
    /\ last.s = "none"
    /\ last.peer \notin Sess
    /\ \E s \in Sess : sessions[s].peer = Nil /\ sessions[s].key \in 1..nextKey

\* C12 (Session.Public is idempotent and pure): the signedKey of a session is
\* the bytes its NewSessionKey call produced and no later call changes it;
\* every Public call, whatever PeerSessionKey, Encrypt and Decrypt calls came
\* before, returns exactly those bytes and changes no field of any session.
C12_PublicPure ==
    [][/\ \A s \in DOMAIN sessions' :
              IF s \in Sess
              THEN sessions'[s].signedKey = sessions[s].signedKey
              ELSE /\ last'.op = "NewSessionKey" /\ last'.s = s
                   /\ sessions'[s].signedKey = last'.out
       /\ last'.op = "Public"
              => /\ sessions' = sessions
                 /\ last'.out = sessions[last'.s].signedKey
                 /\ last'.err = "nil"]_vars

\* Witness for C12: Public was called on a session that has a validated peer
\* and has encrypted, and returned the export signed by its identity.
C12_Witness ==
    /\ last.op = "Public"
    /\ sessions[last.s].peer # Nil
    /\ \E i \in 1..Len(wire) : wire[i].to = Deref(sessions[last.s].peer)
    /\ last.out = sessions[last.s].signedKey
    /\ Verify(RsaPub(last.s), Unmarshal(last.out).a, Unmarshal(last.out).b)

\* C13 (Encrypt and Decrypt leave the session unchanged): on every exit
\* path of an Encrypt or Decrypt call (success, each error return) every
\* session has the same key, signedKey and peer after the call as before;
\* these three are all the fields a session has, so neither the ephemeral
\* private value nor the shared secret or its segments is kept in it.
C13_CryptKeepsSession ==
    [][last'.op \in {"Encrypt", "Decrypt"}
       => /\ sessions' = sessions
          /\ \A s \in Sess :
                 /\ DOMAIN sessions'[s] = {"key", "signedKey", "peer"}
                 /\ last'.op = "Encrypt" /\ last'.err = "nil"
                        => sessions'[s].key # nextKey']_vars

\* Witness for C13: an Encrypt call has failed in the cipher on a session
\* that encrypted successfully before, and the session still holds the peer
\* value the earlier envelope was made for.
C13_Witness ==
    /\ last.op = "Encrypt"
    /\ last.err = "EncryptionError"
    /\ \E i \in 1..Len(wire) : sessions[last.s].peer = Ptr(wire[i].to)

\* The envelope Encrypt builds from the ephemeral private value eph for a
\* peer whose agreement private value is key.
EnvelopeFor(key, eph, m) ==
    EncryptCore([key |-> eph, signedKey |-> NilBytes, peer |-> Ptr(key)],
                eph, Plain(m), "none").out

\* C14 (Decrypt does not read the peer): whatever the session's peer is
\* (unset, the sender's value, another validated value), Decrypt of an
\* envelope built from any ephemeral key pair against the session's own
\* public value returns the plaintext without error, and the result of every
\* Decrypt call is the one determined by the session's own private value and
\* the bytes alone.
C14_DecryptIgnoresPeer ==
    last.op = "Decrypt" =>
        /\ \A eph \in 1..AdvKey, m \in Msgs :
               last.in = EnvelopeFor(sessions[last.s].key, eph, m)
                   => (last.err = "nil" /\ last.out = Plain(m))
        /\ [err |-> last.err, out |-> last.out]
               = DecryptCore(sessions[last.s].key, last.in)

\* Witness for C14 (one-sided handshake): a session that never completed
\* PeerSessionKey has decrypted an envelope that the other session, which
\* did, encrypted for it.
C14_Witness ==
    /\ last.op = "Decrypt"
    /\ last.err = "nil"
    /\ sessions[last.s].peer = Nil /\ bound[last.s] = Nil
    /\ \E i \in 1..Len(wire) :
           /\ last.in = wire[i].env
           /\ wire[i].to = sessions[last.s].key
           /\ last.out = wire[i].pt

\* len(b) of a byte string kept as a range of a derivation's output.
ByteLen(b) == b.to - b.from

\* The segments symkey and mackey partition the secret shared: shared has
\* sharedKeyLen bytes, symkey is its bytes [0, SymKeyLen), mackey its bytes
\* [SymKeyLen, sharedKeyLen).
Partitions(keys) ==
    /\ ByteLen(keys.shared) = sharedKeyLen
    /\ keys.symkey = [keys.shared EXCEPT !.from = 0, !.to = SymKeyLen]
    /\ keys.mackey = [keys.shared EXCEPT !.from = SymKeyLen, !.to = sharedKeyLen]
    /\ keys.symkey.to <= keys.mackey.from
    /\ ByteLen(keys.symkey) + ByteLen(keys.mackey) = ByteLen(keys.shared)

\* C15 (length and split of the shared secret): for every envelope Encrypt
\* returned, the secret Encrypt derived and the secret the receiving session
\* derives in Decrypt both have sharedKeyLen = 48 bytes and are cut at index
\* SymKeyLen into the confidentiality key [0, SymKeyLen) and the integrity
\* key [SymKeyLen, 48), which neither overlap nor leave a gap; the two sides
\* obtain the same pair of keys, and these are the keys the envelope's
\* ciphertext was made with.
C15_SplitAgrees ==
    /\ sharedKeyLen = 48
    /\ \A i \in 1..Len(wire) :
           LET env == wire[i].env
               enc == EncryptKeys(env.a.val, Ptr(wire[i].to))
               dec == DecryptKeys(wire[i].to, ImportPublic(env.a).pub)
           IN  /\ Partitions(enc)
               /\ Partitions(dec)
               /\ dec = enc
               /\ env.b.sym = dec.symkey
               /\ env.b.mac = dec.mackey

\* Witness for C15: the receiving session has decrypted an envelope, so both
\* sides have derived and split the secret.
C15_Witness ==
    /\ last.op = "Decrypt"
    /\ last.err = "nil"
    /\ \E i \in 1..Len(wire) :
           /\ last.in = wire[i].env
           /\ wire[i].to = sessions[last.s].key
           /\ ByteLen(wire[i].env.b.sym) = SymKeyLen
           /\ ByteLen(wire[i].env.b.mac) = sharedKeyLen - SymKeyLen

\* C17 (Validate and matchHash): Validate(password, challenge, response) is
\* true exactly when response has the length of Response(password,
\* challenge) and agrees with it at every index; a proper prefix, a longer
\* byte string and a byte string with one byte changed are refused, and the
\* response itself is accepted.  This holds for every direct call and for
\* the call inside Challenge.
C17_ValidateExact ==
    /\ call.op = "Validate" =>
           LET good == Response(call.password, call.challenge)
           IN  call.result <=>
                   /\ Len(call.response) = Len(good)
                   /\ \A i \in 1..Len(good) : call.response[i] = good[i]
    /\ chal.pc \in {"ok", "done"} /\ chal.response # <<>> =>
           (chal.valid <=> chal.response = Response(chal.password, chal.challenge))
    /\ \A p \in Passwords, c \in Challenges : Validate(p, c, Response(p, c))

\* Witness for C17: Validate has refused a proper prefix of the right
\* response in a direct call, and Challenge has accepted the response it
\* read.
C17_Witness ==
    /\ call.op = "Validate"
    /\ ~call.result
    /\ call.response # <<>>
    /\ Len(call.response) < HashSize
    /\ call.response
           = SubSeq(Response(call.password, call.challenge), 1, Len(call.response))
    /\ chal.valid

\* Challenge has written "ok" only after reading a response that Validate
\* accepts for its password and the challenge it sent.
OkOnlyAfterAccept ==
    chal.ok => /\ chal.valid
               /\ Validate(chal.password, chal.challenge, chal.response)

\* With different passwords on the two ends no "ok" is written.
NoOkOnMismatch ==
    chal.password # auth.password => ~chal.ok

\* Authenticate has returned a nil error only if Challenge accepted the
\* response and wrote "ok".
NilOnlyIfAccepted ==
    (auth.pc = "done" /\ auth.err = "nil") => (chal.valid /\ chal.ok)

\* C16 (challenge/response run): Challenge writes "ok" only after it has
\* read a response that Validate accepts for its password and the challenge
\* it sent; with different passwords on the two ends no "ok" is ever
\* written; and Authenticate returns a nil error only in runs in which
\* Challenge accepted the response.
C16_AuthOnlyIfAccepted ==
    /\ OkOnlyAfterAccept
    /\ NoOkOnMismatch
    /\ NilOnlyIfAccepted

====
